---- MODULE Spec2Model ----
(***************************************************************************)
(* Project ROSE: the command loop of main.py, the conversation state of    *)
(* ollama.py (OllamaHandler) and the speech contract of voice.py           *)
(* (VoiceHandler.listen / speak).                                          *)
(*                                                                         *)
(* pc names the line of main.py whose call is made next ("L48" is the      *)
(* rose.listen call at the top of the while loop).  Every blocking call    *)
(* (listen, speak, ask) is one step that either returns or is cut short by *)
(* a KeyboardInterrupt raised inside it.                                   *)
(***************************************************************************)
EXTENDS Integers, Sequences, FiniteSets, TLC

VARIABLES
    pc,         \* position of main(): the line of the next call, or "exited"
    command,    \* main.py:48  the utterance of the current turn
    ai,         \* the OllamaHandler: available, conversation_history, max_history
    response,   \* main.py:113 the value ai.ask returned
    exit_code,  \* process exit status; -1 while the process runs
    log,        \* calls made in the current turn, in order (observation)
    fired,      \* rules of the if/elif chain entered in this turn (observation)
    h0,         \* conversation_history when the current turn began (observation)
    exchanges,  \* successful exchanges since the last clear_history (observation)
    interrupted,\* a KeyboardInterrupt was raised in the current turn (observation)
    turns       \* number of listen calls made so far

vars == <<pc, command, ai, response, exit_code, log, fired, h0, exchanges,
          interrupted, turns>>

-----------------------------------------------------------------------------
(* Bounds of the model *)

MaxTurns == 4

-----------------------------------------------------------------------------
(* Strings *)

\* Python's  needle in haystack  on str
Contains(needle, haystack) ==
    \E i \in 1..(Len(haystack) - Len(needle) + 1) :
        SubSeq(haystack, i, i + Len(needle) - 1) = needle

\* one character of str.lower()
LowerChar(c) ==
    CASE c = "H" -> "h"
      [] c = "R" -> "r"
      [] c = "S" -> "s"
      [] c = "E" -> "e"
      [] c = "I" -> "i"
      [] c = "T" -> "t"
      [] c = "C" -> "c"
      [] OTHER -> c

RECURSIVE Lower(_)
Lower(s) ==
    IF s = "" THEN ""
    ELSE LowerChar(SubSeq(s, 1, 1)) \o Lower(SubSeq(s, 2, Len(s)))

IsSpace(c) == c \in {" ", "\n", "\t"}

RECURSIVE LStrip(_)
LStrip(s) ==
    IF s = "" THEN ""
    ELSE IF IsSpace(SubSeq(s, 1, 1)) THEN LStrip(SubSeq(s, 2, Len(s)))
    ELSE s

RECURSIVE RStrip(_)
RStrip(s) ==
    IF s = "" THEN ""
    ELSE IF IsSpace(SubSeq(s, Len(s), Len(s))) THEN RStrip(SubSeq(s, 1, Len(s) - 1))
    ELSE s

\* Python's str.strip()
Strip(s) == RStrip(LStrip(s))

\* Python's  lst[start:]  for any integer start
PySliceFrom(lst, start) ==
    LET n == Len(lst)
        s == IF start < 0
             THEN (IF n + start < 0 THEN 0 ELSE n + start)
             ELSE (IF start > n THEN n ELSE start)
    IN  SubSeq(lst, s + 1, n)

-----------------------------------------------------------------------------
(* The environment: what the recogniser hears, what the model process      *)
(* prints, what the clock shows                                            *)

\* texts recognize_google can return (before .lower())
Heard ==
    { "Hey Rose", "hello rose", "hello", "hi",
      "what time", "tell me the time", "what day", "what's the date",
      "how are you", "thank you", "thanks",
      "clear history", "reset conversation",
      "check for updates", "check updates",
      "update rose", "update yourself",
      "what version", "your version",
      "Exit", "goodbye", "shut down",
      "thank you and goodbye", "tell me the time and exit",
      "explain sql injection", "How can I secure SSH" }

\* result.stdout of a model run that exits with code 0
Stdouts == { " Use parameterized queries.\n", "Disable root login." }

\* now.strftime("%I:%M %p") and now.strftime("%A, %B %d, %Y")
Times == { "09:05 AM" }
Dates == { "Monday, November 02, 2026" }

\* how VoiceHandler.listen ends when it does not return recognised text
ListenFailures == { "WaitTimeoutError", "UnknownValueError", "RequestError", "Exception" }

\* how the subprocess.run of ask ends
RunOutcomes == { "ok", "nonzero", "TimeoutExpired", "Exception" }

\* how _check_ollama ends
CheckOutcomes == { "ready", "no_ollama", "no_model", "Exception" }

-----------------------------------------------------------------------------
(* Fixed texts *)

Apology     == "An error occurred. Please check the console."
Farewell    == "Understood. Rose shutting down. Goodbye."
InterruptAck == "Manual interrupt received. Going offline."
Thinking    == "Thinking..."
Cleared     == "Conversation history cleared."
NotAvailable == "AI is not available."
BriefSuffix == "\n\n(Keep response brief - 2-3 sentences for voice output)"

AskUnavailable == "AI is not available. Please install Ollama and download a model."
AskNonZero     == "I'm having trouble thinking right now. Please try again."
AskTimeout     == "Sorry, I'm thinking too slowly. Try asking something simpler."
AskError       == "Something went wrong with my AI processing."

Echo(cmd) == "I heard: " \o cmd \o ". I'm still learning new commands."

-----------------------------------------------------------------------------
(* OllamaHandler *)

Msg(role, content) == [role |-> role, content |-> content]

\* self.max_history as __init__ sets it
DefaultMaxHistory == 2

\* OllamaHandler.__init__ followed by _check_ollama
NewOllamaHandler(check) ==
    [ available            |-> (check = "ready"),
      conversation_history |-> << >>,
      max_history          |-> DefaultMaxHistory ]

is_available(self) == self.available

\* (mutant) the history update without lines 174-175: nothing is evicted
UpdateHistoryNoEvict(self, user_message, text) ==
    self.conversation_history
        \o << Msg("user", user_message), Msg("assistant", text) >>

\* (mutant) the slice of line 175 taken from the wrong end: [:max_history * 2]
UpdateHistoryKeepOldest(self, user_message, text) ==
    LET appended == self.conversation_history
                        \o << Msg("user", user_message), Msg("assistant", text) >>
    IN  IF Len(appended) > self.max_history * 2
        THEN SubSeq(appended, 1, self.max_history * 2)
        ELSE appended

\* (mutant) an eviction that starts the history afresh instead of slicing it
UpdateHistoryDropAll(self, user_message, text) ==
    LET appended == self.conversation_history
                        \o << Msg("user", user_message), Msg("assistant", text) >>
    IN  IF Len(appended) > self.max_history * 2
        THEN << >>
        ELSE appended

\* (mutant) an eviction that drops the single oldest entry: pop(0)
UpdateHistoryPopOne(self, user_message, text) ==
    LET appended == self.conversation_history
                        \o << Msg("user", user_message), Msg("assistant", text) >>
    IN  IF Len(appended) > self.max_history * 2
        THEN Tail(appended)
        ELSE appended

\* the history update of ask after a run that exited with code 0
UpdateHistory(self, user_message, text) ==
    LET appended == self.conversation_history
                        \o << Msg("user", user_message), Msg("assistant", text) >>
    IN  IF Len(appended) > self.max_history * 2
        THEN PySliceFrom(appended, (-self.max_history) * 2)
        ELSE appended

\* (mutant) ask recording the question before the model process is run, so
\* that a run that fails leaves a lone user entry behind
askRecordsFirst(self, user_message, run, stdout) ==
    IF ~is_available(self)
    THEN [ raised |-> FALSE, ret |-> AskUnavailable, self |-> self ]
    ELSE LET msg == user_message \o BriefSuffix
             asked == [ self EXCEPT !.conversation_history =
                           Append(self.conversation_history, Msg("user", msg)) ]
         IN  CASE run = "nonzero" ->
                    [ raised |-> FALSE, ret |-> AskNonZero, self |-> asked ]
               [] run = "TimeoutExpired" ->
                    [ raised |-> FALSE, ret |-> AskTimeout, self |-> asked ]
               [] run = "Exception" ->
                    [ raised |-> FALSE, ret |-> AskError, self |-> asked ]
               [] OTHER ->
                    [ raised |-> FALSE,
                      ret    |-> Strip(stdout),
                      self   |-> [ self EXCEPT !.conversation_history =
                                      UpdateHistory(self, msg, Strip(stdout)) ] ]

\* (mutant) ask without the except Exception clause of lines 182-184
askPropagates(self, user_message, run, stdout) ==
    IF ~is_available(self)
    THEN [ raised |-> FALSE, ret |-> AskUnavailable, self |-> self ]
    ELSE LET msg == user_message \o BriefSuffix
         IN  CASE run = "nonzero" ->
                    [ raised |-> FALSE, ret |-> AskNonZero, self |-> self ]
               [] run = "TimeoutExpired" ->
                    [ raised |-> FALSE, ret |-> AskTimeout, self |-> self ]
               [] run = "Exception" ->
                    [ raised |-> TRUE, ret |-> "", self |-> self ]
               [] OTHER ->
                    [ raised |-> FALSE,
                      ret    |-> Strip(stdout),
                      self   |-> [ self EXCEPT !.conversation_history =
                                      UpdateHistory(self, msg, Strip(stdout)) ] ]

\* OllamaHandler.ask(user_message) with brief = True: whether an exception
\* leaves ask (none does: lines 179-184 catch each), the value returned and the
\* handler afterwards.  run is how subprocess.run ended, stdout what the model
\* process printed.
ask(self, user_message, run, stdout) ==
    IF ~is_available(self)
    THEN [ raised |-> FALSE, ret |-> AskUnavailable, self |-> self ]
    ELSE LET msg == user_message \o BriefSuffix
         IN  CASE run = "nonzero" ->
                    [ raised |-> FALSE, ret |-> AskNonZero, self |-> self ]
               [] run = "TimeoutExpired" ->
                    [ raised |-> FALSE, ret |-> AskTimeout, self |-> self ]
               [] run = "Exception" ->
                    [ raised |-> FALSE, ret |-> AskError, self |-> self ]
               [] OTHER ->
                    [ raised |-> FALSE,
                      ret    |-> Strip(stdout),
                      self   |-> [ self EXCEPT !.conversation_history =
                                      UpdateHistory(self, msg, Strip(stdout)) ] ]

\* (mutant) clear_history without the assignment of line 206
clear_historyNoop(self) == self

clear_history(self) == [ self EXCEPT !.conversation_history = << >> ]

-----------------------------------------------------------------------------
(* main(): the if/elif chain of the command loop *)

\* the trigger phrases of the rules, in the order of the chain
Rules ==
    << {"hey rose", "hello rose"},
       {"hello", "hi"},
       {"what time", "tell me the time"},
       {"what day", "what's the date"},
       {"how are you"},
       {"thank you", "thanks"},
       {"clear history", "reset conversation"},
       {"check for updates", "check updates"},
       {"update rose", "update yourself"},
       {"what version", "your version"},
       {"exit", "goodbye", "shut down"} >>

\* the rule of the final else
DefaultRule == Len(Rules) + 1

\* (mutant) the chain with its first two tests in the other order
DispatchSwapped(cmd) ==
    IF Contains("hello", cmd) \/ Contains("hi", cmd) THEN 2
    ELSE IF Contains("hey rose", cmd) \/ Contains("hello rose", cmd) THEN 1
    ELSE IF Contains("what time", cmd) \/ Contains("tell me the time", cmd) THEN 3
    ELSE IF Contains("what day", cmd) \/ Contains("what's the date", cmd) THEN 4
    ELSE IF Contains("how are you", cmd) THEN 5
    ELSE IF Contains("thank you", cmd) \/ Contains("thanks", cmd) THEN 6
    ELSE IF Contains("clear history", cmd) \/ Contains("reset conversation", cmd) THEN 7
    ELSE IF Contains("check for updates", cmd) \/ Contains("check updates", cmd) THEN 8
    ELSE IF Contains("update rose", cmd) \/ Contains("update yourself", cmd) THEN 9
    ELSE IF Contains("what version", cmd) \/ Contains("your version", cmd) THEN 10
    ELSE IF Contains("exit", cmd) \/ Contains("goodbye", cmd) \/ Contains("shut down", cmd)
         THEN 11
    ELSE 12

\* the rule of the chain that runs for a non-empty command: 1..11 in the order
\* of the chain, 12 for the final else
Dispatch(cmd) ==
    IF Contains("hey rose", cmd) \/ Contains("hello rose", cmd) THEN 1
    ELSE IF Contains("hello", cmd) \/ Contains("hi", cmd) THEN 2
    ELSE IF Contains("what time", cmd) \/ Contains("tell me the time", cmd) THEN 3
    ELSE IF Contains("what day", cmd) \/ Contains("what's the date", cmd) THEN 4
    ELSE IF Contains("how are you", cmd) THEN 5
    ELSE IF Contains("thank you", cmd) \/ Contains("thanks", cmd) THEN 6
    ELSE IF Contains("clear history", cmd) \/ Contains("reset conversation", cmd) THEN 7
    ELSE IF Contains("check for updates", cmd) \/ Contains("check updates", cmd) THEN 8
    ELSE IF Contains("update rose", cmd) \/ Contains("update yourself", cmd) THEN 9
    ELSE IF Contains("what version", cmd) \/ Contains("your version", cmd) THEN 10
    ELSE IF Contains("exit", cmd) \/ Contains("goodbye", cmd) \/ Contains("shut down", cmd)
         THEN 11
    ELSE 12

\* the lines of main.py at which each rule's body makes a call
Body ==
    << {"L56"}, {"L59"}, {"L64"}, {"L69"}, {"L72"}, {"L75"},
       {"L78", "L80", "L82"},
       {"L85", "L86"},
       {"L93", "L94"},
       {"L102"},
       {"L106"},
       {"L111", "L112", "L113", "L114", "L117"} >>

\* the first line of each rule's body
Entry(rule) ==
    CASE rule = 1  -> "L56"
      [] rule = 2  -> "L59"
      [] rule = 3  -> "L64"
      [] rule = 4  -> "L69"
      [] rule = 5  -> "L72"
      [] rule = 6  -> "L75"
      [] rule = 7  -> "L78"
      [] rule = 8  -> "L85"
      [] rule = 9  -> "L93"
      [] rule = 10 -> "L102"
      [] rule = 11 -> "L106"
      [] OTHER     -> "L111"

\* one call as the log records it: how it ended ("returned", the exception that
\* ended it, or for ask the way the model process ended) and what it returned
Call(op, arg, how, ret) == [op |-> op, arg |-> arg, how |-> how, ret |-> ret]

\* rose.speak(text) at line `at`.  speak catches every Exception of the engine
\* itself (voice.py:120-124); a KeyboardInterrupt raised inside it goes to
\* `onInterrupt`.
Speak(at, text, next, onInterrupt) ==
    /\ pc = at
    /\ \/ /\ pc' = next
          /\ log' = Append(log, Call("speak", text, "returned", ""))
          /\ UNCHANGED interrupted
       \/ /\ pc' = onInterrupt
          /\ log' = Append(log, Call("speak", text, "KeyboardInterrupt", ""))
          /\ interrupted' = TRUE

\* sys.exit(code)
Exit(code) ==
    /\ pc' = "exited"
    /\ exit_code' = code

\* a KeyboardInterrupt that nothing catches ends the process (status 130)
Uncaught ==
    /\ interrupted' = TRUE
    /\ Exit(130)

-----------------------------------------------------------------------------
(* main(): start-up, lines 28-42 *)

Init ==
    /\ pc = "L30"
    /\ command = ""
    /\ ai = NewOllamaHandler("Exception")
    /\ response = ""
    /\ exit_code = -1
    /\ log = << >>
    /\ fired = << >>
    /\ h0 = << >>
    /\ exchanges = << >>
    /\ interrupted = FALSE
    /\ turns = 0

\* rose = VoiceHandler(...): returns, raises (no audio driver, no PyAudio), or
\* is interrupted
L30 ==
    /\ pc = "L30"
    /\ \/ /\ pc' = "L34"
          /\ UNCHANGED <<exit_code, interrupted>>
       \/ /\ Exit(1)                      \* except Exception, lines 133-138
          /\ UNCHANGED interrupted
       \/ Uncaught
    /\ UNCHANGED <<command, ai, response, log, fired, h0, exchanges, turns>>

\* ai = OllamaHandler(...): _check_ollama catches every Exception itself
L34 ==
    /\ pc = "L34"
    /\ \/ /\ \E check \in CheckOutcomes : ai' = NewOllamaHandler(check)
          /\ pc' = "L37"
          /\ UNCHANGED <<exit_code, interrupted>>
       \/ /\ Uncaught
          /\ UNCHANGED ai
    /\ UNCHANGED <<command, response, log, fired, h0, exchanges, turns>>

L37 ==
    /\ Speak("L37", "System online. Rose activated and ready.", "L38", "uncaught")
    /\ UNCHANGED <<command, ai, response, exit_code, fired, h0, exchanges, turns>>

L38 ==
    /\ Speak("L38",
             IF is_available(ai)
             THEN "Artificial intelligence module loaded. I can help with cybersecurity questions."
             ELSE "Running in basic mode. AI features unavailable.",
             "L42", "uncaught")
    /\ UNCHANGED <<command, ai, response, exit_code, fired, h0, exchanges, turns>>

L42 ==
    /\ Speak("L42", "Say hey rose to get my attention, or say exit to shut down.",
             "L48", "uncaught")
    /\ UNCHANGED <<command, ai, response, exit_code, fired, h0, exchanges, turns>>

\* the KeyboardInterrupt leaves main(): no handler encloses the call
UncaughtInterrupt ==
    /\ pc = "uncaught"
    /\ Exit(130)
    /\ UNCHANGED <<command, ai, response, log, fired, h0, exchanges, interrupted, turns>>

-----------------------------------------------------------------------------
(* main(): the command loop, lines 45-131 *)

TurnFrame == UNCHANGED <<command, ai, response, exit_code, fired, h0, exchanges, turns>>

\* (mutant) the loop without the test of lines 51-52
AfterListenNoSkip(cmd) == Entry(Dispatch(cmd))

\* where control goes once listen has returned cmd: lines 51-52 and the chain
AfterListen(cmd) == IF cmd = "" THEN "L48" ELSE Entry(Dispatch(cmd))

\* command = rose.listen(timeout=10).  listen returns text.lower(), or "" from
\* each of its four except clauses (voice.py:168-179)
L48 ==
    /\ pc = "L48"
    /\ turns < MaxTurns
    /\ turns' = turns + 1
    /\ h0' = ai.conversation_history
    /\ \/ \E text \in Heard :
            /\ command' = Lower(text)
            /\ pc' = AfterListen(command')
            /\ fired' = IF pc' = "L48" THEN << >> ELSE << Dispatch(command') >>
            /\ log' = << Call("listen", "", "returned", command') >>
            /\ interrupted' = FALSE
       \/ \E failure \in ListenFailures :
            /\ command' = ""
            /\ pc' = AfterListen(command')
            /\ fired' = IF pc' = "L48" THEN << >> ELSE << Dispatch(command') >>
            /\ log' = << Call("listen", "", failure, command') >>
            /\ interrupted' = FALSE
       \/ /\ pc' = "L122"
          /\ fired' = << >>
          /\ log' = << Call("listen", "", "KeyboardInterrupt", "") >>
          /\ interrupted' = TRUE
          /\ UNCHANGED command
    /\ UNCHANGED <<ai, response, exit_code, exchanges>>

L56 ==
    /\ Speak("L56", "Yes? How can I help you?", "L48", "L122")
    /\ TurnFrame

\* (mutant) the hello / hi branch falling into the greeting of line 56
L59Fallthrough ==
    /\ Speak("L59", "Hello! I'm here and listening.", "L56", "L122")
    /\ TurnFrame

L59 ==
    /\ Speak("L59", "Hello! I'm here and listening.", "L48", "L122")
    /\ TurnFrame

L64 ==
    /\ \E time_str \in Times :
         Speak("L64", "The time is " \o time_str \o ".", "L48", "L122")
    /\ TurnFrame

L69 ==
    /\ \E date_str \in Dates :
         Speak("L69", "Today is " \o date_str \o ".", "L48", "L122")
    /\ TurnFrame

L72 ==
    /\ Speak("L72", "I'm functioning optimally. All systems nominal.", "L48", "L122")
    /\ TurnFrame

L75 ==
    /\ Speak("L75", "You're welcome!", "L48", "L122")
    /\ TurnFrame

\* lines 78-79: if ai.is_available(): ai.clear_history()
L78 ==
    /\ pc = "L78"
    /\ IF is_available(ai)
       THEN /\ ai' = clear_history(ai)
            /\ exchanges' = << >>
            /\ log' = Append(log, Call("clear_history", "", "returned", ""))
            /\ pc' = "L80"
       ELSE /\ pc' = "L82"
            /\ UNCHANGED <<ai, exchanges, log>>
    /\ UNCHANGED <<command, response, exit_code, fired, h0, interrupted, turns>>

L80 ==
    /\ Speak("L80", Cleared, "L48", "L122")
    /\ TurnFrame

L82 ==
    /\ Speak("L82", NotAvailable, "L48", "L122")
    /\ TurnFrame

\* (mutant) no inner except Exception clause: the NameError reaches the outer
\* clause of lines 133-138, which exits with status 1
RaiseNameErrorFatal(at) ==
    /\ pc = at
    /\ Exit(1)
    /\ log' = Append(log, Call("updater", "", "NameError", ""))
    /\ UNCHANGED <<command, ai, response, fired, h0, exchanges, interrupted, turns>>

\* the name `updater` is bound nowhere in main.py: evaluating it raises
\* NameError, which the except Exception clause of line 125 catches
RaiseNameError(at) ==
    /\ pc = at
    /\ pc' = "L130"
    /\ log' = Append(log, Call("updater", "", "NameError", ""))
    /\ UNCHANGED <<command, ai, response, exit_code, fired, h0, exchanges,
                   interrupted, turns>>

L85 ==
    /\ Speak("L85", "Checking for updates...", "L86", "L122")
    /\ TurnFrame

L86 == RaiseNameError("L86")

L93 ==
    /\ Speak("L93", "Starting update process. Creating backup...", "L94", "L122")
    /\ TurnFrame

\* (mutant) an updater that exists and succeeds: lines 95-97 speak and break
L94Updated ==
    /\ Speak("L94", "Update complete! I need to restart. Shutting down now.",
             "L141", "L122")
    /\ TurnFrame

L94 == RaiseNameError("L94")

\* (mutant) an updater that exists: lines 102-103 report its version
L102Defined ==
    /\ Speak("L102", "I'm running version 1.0.", "L48", "L122")
    /\ TurnFrame

L102 == RaiseNameError("L102")

\* (mutant) the exit branch without the break of line 107
L106Continue ==
    /\ Speak("L106", Farewell, "L48", "L122")
    /\ TurnFrame

L106 ==
    /\ Speak("L106", Farewell, "L141", "L122")
    /\ TurnFrame

\* (mutant) the final else without the test of line 111
L111Unguarded ==
    /\ pc = "L111"
    /\ pc' = "L112"
    /\ UNCHANGED <<command, ai, response, exit_code, log, fired, h0, exchanges,
                   interrupted, turns>>

\* line 111: if ai.is_available()
L111 ==
    /\ pc = "L111"
    /\ pc' = IF is_available(ai) THEN "L112" ELSE "L117"
    /\ UNCHANGED <<command, ai, response, exit_code, log, fired, h0, exchanges,
                   interrupted, turns>>

L112 ==
    /\ Speak("L112", Thinking, "L113", "L122")
    /\ TurnFrame

\* response = ai.ask(command); ask catches every Exception itself, a
\* KeyboardInterrupt raised while the model process runs reaches main()
L113 ==
    /\ pc = "L113"
    /\ \/ \E run \in RunOutcomes, stdout \in Stdouts :
            LET r == ask(ai, command, run, stdout) IN
            /\ ai' = r.self
            /\ exchanges' = IF is_available(ai) /\ run = "ok"
                            THEN Append(exchanges,
                                        << Msg("user", command \o BriefSuffix),
                                           Msg("assistant", Strip(stdout)) >>)
                            ELSE exchanges
            /\ IF r.raised
               THEN /\ pc' = "L130"          \* except Exception, line 125
                    /\ log' = Append(log, Call("ask", command, "raised", ""))
                    /\ UNCHANGED response
               ELSE /\ pc' = "L114"
                    /\ response' = r.ret
                    /\ log' = Append(log, Call("ask", command, run, r.ret))
            /\ UNCHANGED interrupted
       \/ /\ pc' = "L122"
          /\ log' = Append(log, Call("ask", command, "KeyboardInterrupt", ""))
          /\ interrupted' = TRUE
          /\ UNCHANGED <<response, ai, exchanges>>
    /\ UNCHANGED <<command, exit_code, fired, h0, turns>>

\* (mutant) line 114 speaking the command instead of the response
L114Echo ==
    /\ Speak("L114", command, "L48", "L122")
    /\ TurnFrame

L114 ==
    /\ Speak("L114", response, "L48", "L122")
    /\ TurnFrame

L117 ==
    /\ Speak("L117", Echo(command), "L48", "L122")
    /\ TurnFrame

\* except KeyboardInterrupt, lines 119-123: speak, then break
L122 ==
    /\ Speak("L122", InterruptAck, "L141", "uncaught")
    /\ TurnFrame

\* (mutant) the except Exception clause waiting for the operator (a prompt
\* on the console) instead of going on: no step leaves it
L130Wait ==
    /\ pc = "L130"
    /\ pc' = "L130"
    /\ UNCHANGED <<command, ai, response, exit_code, log, fired, h0, exchanges,
                   interrupted, turns>>

\* (mutant) the except Exception clause ending with a break
L130Break ==
    /\ Speak("L130", Apology, "L141", "uncaught")
    /\ TurnFrame

\* except Exception, lines 125-131: speak, then the next iteration
L130 ==
    /\ Speak("L130", Apology, "L48", "uncaught")
    /\ TurnFrame

\* after a break: lines 140-144, sys.exit(0)
L141 ==
    /\ pc = "L141"
    /\ Exit(0)
    /\ UNCHANGED <<command, ai, response, log, fired, h0, exchanges, interrupted, turns>>

-----------------------------------------------------------------------------

Next ==
    \/ L30 \/ L34 \/ L37 \/ L38 \/ L42 \/ UncaughtInterrupt
    \/ L48
    \/ L56 \/ L59 \/ L64 \/ L69 \/ L72 \/ L75
    \/ L78 \/ L80 \/ L82
    \/ L85 \/ L86 \/ L93 \/ L94 \/ L102
    \/ L106
    \/ L111 \/ L112 \/ L113 \/ L114 \/ L117
    \/ L122 \/ L130 \/ L141

Spec == Init /\ [][Next]_vars

-----------------------------------------------------------------------------
(* What a turn did, read from the log *)

\* the turn in progress (or just completed) began with listen returning text
HeardTurn ==
    /\ log # << >>
    /\ log[1].op = "listen"
    /\ log[1].how = "returned"
    /\ log[1].ret # ""

\* the calls of the turn after its listen
Calls == IF log # << >> /\ log[1].op = "listen" THEN Tail(log) ELSE << >>

SelectOp(calls, op) == SelectSeq(calls, LAMBDA c : c.op = op)

SpokenCount(text) ==
    Len(SelectSeq(Calls, LAMBDA c : c.op = "speak" /\ c.arg = text))

History == ai.conversation_history

\* the rules with a trigger phrase occurring in cmd
Matching(cmd) == { i \in 1..Len(Rules) : \E t \in Rules[i] : Contains(t, cmd) }

LowestMatch(cmd) ==
    IF Matching(cmd) = {} THEN DefaultRule
    ELSE CHOOSE i \in Matching(cmd) : \A j \in Matching(cmd) : i <= j

RECURSIVE Flatten(_)
Flatten(pairs) == IF pairs = << >> THEN << >> ELSE Head(pairs) \o Flatten(Tail(pairs))

LastN(seq, n) == SubSeq(seq, Len(seq) - n + 1, Len(seq))

-----------------------------------------------------------------------------
(* C1: for every non-empty utterance the loop runs exactly one rule's body,  *)
(* the body of the lowest-numbered rule one of whose trigger phrases occurs  *)
(* in the utterance, and the final else when no trigger occurs; also when    *)
(* triggers of several rules occur.                                          *)
C1_FirstMatchWins ==
    HeardTurn =>
        /\ command = log[1].ret
        /\ fired = << LowestMatch(command) >>
        /\ \A i \in 1..DefaultRule : pc \in Body[i] => i = LowestMatch(command)

\* "thank you and goodbye" holds triggers of rules 6 and 11: rule 6 runs
C1_Witness ==
    /\ HeardTurn
    /\ Cardinality(Matching(command)) >= 2
    /\ 11 \in Matching(command)
    /\ pc = "L75"

-----------------------------------------------------------------------------
Spoke(text) == Call("speak", text, "returned", "")

\* an exception other than KeyboardInterrupt was raised in the turn
Raised == \E i \in 1..Len(Calls) : Calls[i].how \in {"NameError", "raised"}

Stopped == pc \in {"L141", "uncaught", "exited"}

(* C4: when an exception other than a KeyboardInterrupt is raised in a turn  *)
(* (and no KeyboardInterrupt is raised in that turn), the loop does not end: *)
(* the generic apology is spoken exactly once and control is back at the     *)
(* listen call.                                                              *)
C4_ErrorRecovered ==
    (Raised /\ ~interrupted) =>
        /\ pc \in {"L130", "L48"}
        /\ exit_code = -1
        /\ pc = "L130" => SpokenCount(Apology) = 0
        /\ pc = "L48" => /\ SpokenCount(Apology) = 1
                         /\ log[Len(log)] = Spoke(Apology)

\* "check for updates": one reply spoken, then NameError, the apology, listening
C4_Witness ==
    /\ Raised
    /\ fired = << 8 >>
    /\ pc = "L48"
    /\ SpokenCount(Apology) = 1
    /\ Len(Calls) = 3

(* C5: the loop stops only after the exit rule ran, after initialization     *)
(* raised an exception, or after a KeyboardInterrupt; until then the process *)
(* has not exited.                                                           *)
C5_StopCauses ==
    /\ Stopped =>
        \/ /\ HeardTurn
           /\ LowestMatch(command) = 11
           /\ log[Len(log)] = Spoke(Farewell)
        \/ /\ exit_code = 1
           /\ turns = 0
           /\ log = << >>
        \/ interrupted
    /\ ~Stopped => exit_code = -1

\* stopped by the exit rule after other turns, with no interrupt
C5_Witness ==
    /\ pc = "exited"
    /\ turns >= 3
    /\ LowestMatch(command) = 11
    /\ ~interrupted
    /\ History # << >>

(* C6: once the clear-history rule has run, with the AI service available    *)
(* the history is empty, clear_history was called and the reply is           *)
(* "Conversation history cleared."; with the service unavailable the history *)
(* is as the turn found it, clear_history was not called and the reply is    *)
(* "AI is not available.".                                                   *)
C6_ClearHistory ==
    (HeardTurn /\ fired = << 7 >> /\ pc # "L78") =>
        LET spoken == SelectOp(Calls, "speak") IN
        /\ pc = "L48" => Len(spoken) = 1
        /\ IF ai.available
           THEN /\ History = << >>
                /\ Len(SelectOp(Calls, "clear_history")) = 1
                /\ spoken # << >> => spoken[1].arg = Cleared
           ELSE /\ History = h0
                /\ SelectOp(Calls, "clear_history") = << >>
                /\ spoken # << >> => spoken[1].arg = NotAvailable

\* a non-empty history cleared, the confirmation spoken
C6_Witness ==
    /\ HeardTurn
    /\ fired = << 7 >>
    /\ pc = "L48"
    /\ ai.available
    /\ h0 # << >>
    /\ History = << >>
    /\ Calls[Len(Calls)] = Spoke(Cleared)

(* C7: when listen returns the empty string the turn does nothing: no speak, *)
(* ask or clear_history call, the history unchanged, and the next call is    *)
(* listen again.                                                             *)
C7_EmptyUtterance ==
    (log # << >> /\ log[1].op = "listen" /\ log[1].how # "KeyboardInterrupt"
        /\ log[1].ret = "") =>
        /\ pc = "L48"
        /\ Calls = << >>
        /\ fired = << >>
        /\ History = h0
        /\ exit_code = -1

\* unintelligible audio in a later turn, with a history to keep
C7_Witness ==
    /\ log = << Call("listen", "", "UnknownValueError", "") >>
    /\ pc = "L48"
    /\ h0 # << >>
    /\ History = h0

-----------------------------------------------------------------------------
IsSuffix(s, t) == Len(s) <= Len(t) /\ s = LastN(t, Len(s))

\* the turn of an utterance matching no rule, the AI service available, no
\* KeyboardInterrupt raised in it
AiTurn ==
    /\ HeardTurn
    /\ Matching(command) = {}
    /\ ai.available
    /\ ~interrupted

\* speak "Thinking...", one ask(command), speak of what ask returned, in order
ThinkAskSpeak ==
    /\ Len(Calls) <= 3
    /\ Len(Calls) >= 1 => Calls[1] = Spoke(Thinking)
    /\ Len(Calls) >= 2 => Calls[2].op = "ask" /\ Calls[2].arg = command
    /\ Len(Calls) >= 3 => Calls[3] = Spoke(Calls[2].ret)
    /\ pc = "L48" => Len(Calls) = 3

\* the history is what the turn found (less what the cap evicted) followed by
\* one user and one assistant entry
AppendedExchange ==
    LET n == Len(History) IN
    /\ n >= 2
    /\ History[n - 1].role = "user"
    /\ History[n].role = "assistant"
    /\ IsSuffix(SubSeq(History, 1, n - 2), h0)
    /\ n = Len(h0) + 2 \/ n = 2 * ai.max_history

(* C8 as stated: in every such turn the calls are speak "Thinking...", one   *)
(* ask(utterance), speak of the returned text, and once ask has returned the *)
(* turn has appended one user and one assistant entry.                       *)
C8_AsStated ==
    AiTurn =>
        /\ ThinkAskSpeak
        /\ Len(Calls) >= 2 => AppendedExchange

(* C8, amended: the calls are as stated; the user and assistant entries are  *)
(* appended when the model process exits with code 0, and the history is     *)
(* left as it was when the ask fails.                                        *)
C8_AiDelegation ==
    AiTurn =>
        /\ ThinkAskSpeak
        /\ Len(Calls) < 2 => History = h0
        /\ Len(Calls) >= 2 =>
             IF Calls[2].how = "ok" THEN AppendedExchange ELSE History = h0

\* a completed turn whose answer pushed an older exchange out
C8_Witness ==
    /\ AiTurn
    /\ pc = "L48"
    /\ Calls[2].how = "ok"
    /\ Len(h0) = 2 * DefaultMaxHistory
    /\ History # h0
    /\ Calls[3].arg = History[Len(History)].content

AskMessages == { AskUnavailable, AskNonZero, AskTimeout, AskError }

\* ask was called in the turn and did not succeed
AskFailed ==
    /\ HeardTurn
    /\ Len(Calls) >= 2
    /\ Calls[2].op = "ask"
    /\ Calls[2].how \notin {"ok", "KeyboardInterrupt"}

C10_Exit ==
    (HeardTurn /\ LowestMatch(command) = 11 /\ ~interrupted) =>
        /\ pc \in {"L106", "L141", "exited"}
        /\ pc = "L106" => Calls = << >>
        /\ pc # "L106" => Calls = << Spoke(Farewell) >>
        /\ pc # "exited" => exit_code = -1
        /\ pc = "exited" => exit_code = 0

\* "shut down" heard: farewell spoken, process exited with 0
C10_Witness ==
    /\ HeardTurn
    /\ command = "shut down"
    /\ pc = "exited"
    /\ exit_code = 0
    /\ Calls = << Spoke(Farewell) >>


-----------------------------------------------------------------------------
\* KeyboardInterrupts raised in the current turn
Interrupts == Len(SelectSeq(log, LAMBDA c : c.how = "KeyboardInterrupt"))

(* C11 as stated: a KeyboardInterrupt raised at any point of a turn of the   *)
(* loop (one interrupt, after the loop has started) is caught: the           *)
(* acknowledgment is spoken, no listen follows and the process exits with    *)
(* code 0.                                                                   *)
C11_AsStated ==
    (turns >= 1 /\ Interrupts = 1) =>
        /\ pc \in {"L122", "L141", "exited"}
        /\ pc # "L122" => log[Len(log)] = Spoke(InterruptAck)
        /\ pc # "exited" => exit_code = -1
        /\ pc = "exited" => exit_code = 0


-----------------------------------------------------------------------------
-----------------------------------------------------------------------------
(* C13: while the AI service is unavailable the loop never calls ask or      *)
(* clear_history and the history stays empty; the greeting rule answers      *)
(* exactly "Yes? How can I help you?" and an utterance matching no rule is   *)
(* answered with "I heard: <utterance>. I'm still learning new commands.".   *)
C13_BasicMode ==
    (~ai.available /\ turns >= 1) =>
        /\ History = << >>
        /\ SelectOp(Calls, "ask") = << >>
        /\ SelectOp(Calls, "clear_history") = << >>
        /\ (HeardTurn /\ LowestMatch(command) = 1 /\ Calls # << >>) =>
              /\ Calls[1].op = "speak"
              /\ Calls[1].arg = "Yes? How can I help you?"
        /\ (HeardTurn /\ Matching(command) = {} /\ Calls # << >>) =>
              /\ Calls[1].op = "speak"
              /\ Calls[1].arg =
                    "I heard: " \o command \o ". I'm still learning new commands."
        /\ (HeardTurn /\ pc = "L48"
              /\ (LowestMatch(command) = 1 \/ Matching(command) = {})) =>
              Len(Calls) = 1

\* an unmatched utterance echoed in basic mode, the loop listening again
C13_Witness ==
    /\ ~ai.available
    /\ HeardTurn
    /\ command = "how can i secure ssh"
    /\ pc = "L48"
    /\ Calls = << Spoke("I heard: how can i secure ssh. I'm still learning new commands.") >>
    /\ turns >= 2


-----------------------------------------------------------------------------
\* the calls the dispatched action itself made: those up to the first one
\* that ended in an exception (what follows is the loop's except clause)
ActionCalls ==
    LET ended == { i \in 1..Len(Calls) :
                     Calls[i].how \in {"KeyboardInterrupt", "NameError", "raised"} }
    IN  IF ended = {} THEN Calls
        ELSE SubSeq(Calls, 1, CHOOSE i \in ended : \A j \in ended : i <= j)

ActionSpeaks == Len(SelectOp(ActionCalls, "speak"))

(* C14 as stated: in a turn the dispatched action makes at most one speak    *)
(* call.                                                                     *)
C14_AsStated == HeardTurn => ActionSpeaks <= 1

(* C14, amended: the dispatched action makes at most one speak call, except  *)
(* the AI delegation (no rule matches, AI service available), which makes    *)
(* two: "Thinking..." and then the text ask returned.                        *)
C14_SpeakCalls ==
    HeardTurn =>
        IF Matching(command) = {} /\ ai.available
        THEN /\ ActionSpeaks <= 2
             /\ (pc = "L48" /\ ~Raised) =>
                   /\ ActionSpeaks = 2
                   /\ Calls[1] = Spoke(Thinking)
                   /\ Calls[3] = Spoke(Calls[2].ret)
        ELSE ActionSpeaks <= 1

\* a completed AI turn: two speak calls by the action
C14_Witness ==
    /\ HeardTurn
    /\ Matching(command) = {}
    /\ ai.available
    /\ pc = "L48"
    /\ ActionSpeaks = 2
    /\ Calls[2].how = "nonzero"


-----------------------------------------------------------------------------
(* Every call that is made returns or raises: a step that can be taken is    *)
(* eventually taken.                                                         *)
LiveSpec == Spec /\ WF_vars(Next)

\* between two listen calls, the process running
Busy == pc \notin {"L48", "exited"}

(* C15: provided every call returns or raises, from every state of a turn    *)
(* (an action that raised or an AI call that failed included) the loop       *)
(* reaches the listen call again, or the process terminates: it is never     *)
(* stuck.                                                                    *)
C15_BackToListening == Busy ~> ~Busy

\* listening again after the version action raised
C15_Witness ==
    /\ pc = "L48"
    /\ HeardTurn
    /\ fired = << 10 >>
    /\ Raised
    /\ exit_code = -1


-----------------------------------------------------------------------------
\* the update-check, update and version rules
UpdaterRules == {8, 9, 10}

\* what the update-check and update bodies speak before they use the updater
BeforeUpdater(rule) ==
    CASE rule = 8 -> << Spoke("Checking for updates...") >>
      [] rule = 9 -> << Spoke("Starting update process. Creating backup...") >>
      [] OTHER    -> << >>

(* C16: when the first matching rule of an utterance is the update-check,    *)
(* update or version rule, the body fails where it uses the undefined        *)
(* updater: whatever precedes that use is spoken, the NameError is raised,   *)
(* the generic apology is spoken and the loop is back at the listen call     *)
(* with the history as it was (stated for turns with no KeyboardInterrupt);  *)
(* nothing that follows the use of the updater is ever spoken, and the loop  *)
(* never stops in such a turn except by a KeyboardInterrupt.                 *)
C16_UpdaterUndefined ==
    (HeardTurn /\ LowestMatch(command) \in UpdaterRules) =>
        /\ History = h0
        /\ \A i \in 1..Len(Calls) :
              Calls[i].op = "speak" =>
                  \/ /\ i = 1
                     /\ BeforeUpdater(LowestMatch(command)) # << >>
                     /\ Calls[i].arg = BeforeUpdater(LowestMatch(command))[1].arg
                  \/ Calls[i].arg \in {Apology, InterruptAck}
        /\ Stopped => interrupted
        /\ ~interrupted =>
              /\ exit_code = -1
              /\ pc \in Body[LowestMatch(command)] \cup {"L130", "L48"}
              /\ pc = "L48" =>
                    Calls = BeforeUpdater(LowestMatch(command))
                              \o << Call("updater", "", "NameError", ""),
                                    Spoke(Apology) >>

\* "update yourself" with a history kept: backup announced, NameError, apology
C16_Witness ==
    /\ HeardTurn
    /\ LowestMatch(command) = 9
    /\ pc = "L48"
    /\ ~interrupted
    /\ Raised
    /\ History # << >>


-----------------------------------------------------------------------------
(* OllamaHandler used on its own: a caller that constructs a handler and     *)
(* then calls set_max_history, ask and clear_history in any order.  pc stays *)
(* "handler", turns counts the calls made, log holds the last call.          *)

\* the largest cap given to set_max_history, and how many calls are made
MaxCap == 2
MaxCalls == 4

\* what the caller asks
Questions == { "explain sql injection", "how can i secure ssh" }

\* OllamaHandler.set_max_history(max_exchanges)
set_max_history(self, max_exchanges) == [ self EXCEPT !.max_history = max_exchanges ]

HandlerInit ==
    /\ pc = "handler"
    /\ \E check \in CheckOutcomes : ai = NewOllamaHandler(check)
    /\ command = ""
    /\ response = ""
    /\ exit_code = -1
    /\ log = << >>
    /\ fired = << >>
    /\ h0 = << >>
    /\ exchanges = << >>
    /\ interrupted = FALSE
    /\ turns = 0

HandlerFrame == UNCHANGED <<pc, command, exit_code, fired, interrupted>>

CallSetMaxHistory ==
    /\ pc = "handler"
    /\ turns < MaxCalls
    /\ turns' = turns + 1
    /\ \E n \in 0..MaxCap :
          /\ ai' = set_max_history(ai, n)
          /\ log' = << Call("set_max_history", "", "returned", "") >>
    /\ h0' = ai.conversation_history
    /\ UNCHANGED <<response, exchanges>>
    /\ HandlerFrame

CallAsk ==
    /\ pc = "handler"
    /\ turns < MaxCalls
    /\ turns' = turns + 1
    /\ \E q \in Questions, run \in RunOutcomes, stdout \in Stdouts :
          LET r == ask(ai, q, run, stdout) IN
          /\ ai' = r.self
          /\ response' = r.ret
          /\ log' = << Call("ask", q, IF is_available(ai) THEN run ELSE "unavailable",
                            r.ret) >>
          /\ exchanges' = IF is_available(ai) /\ run = "ok"
                          THEN Append(exchanges,
                                      << Msg("user", q \o BriefSuffix),
                                         Msg("assistant", Strip(stdout)) >>)
                          ELSE exchanges
    /\ h0' = ai.conversation_history
    /\ HandlerFrame

CallClearHistory ==
    /\ pc = "handler"
    /\ turns < MaxCalls
    /\ turns' = turns + 1
    /\ ai' = clear_history(ai)
    /\ log' = << Call("clear_history", "", "returned", "") >>
    /\ exchanges' = << >>
    /\ h0' = ai.conversation_history
    /\ UNCHANGED response
    /\ HandlerFrame

HandlerNext == CallSetMaxHistory \/ CallAsk \/ CallClearHistory

HandlerSpec == HandlerInit /\ [][HandlerNext]_vars

\* the call just made was an ask whose model run exited with code 0
AskSucceeded == log # << >> /\ log[1].op = "ask" /\ log[1].how = "ok"

(* C17 as stated: for every cap n >= 0 given to set_max_history, after every *)
(* successful ask the history holds at most 2 * n messages (n = 0 and a cap  *)
(* lowered below the current length included).                               *)
C17_AsStated == AskSucceeded => Len(History) <= 2 * ai.max_history


-----------------------------------------------------------------------------
(* C18: in a run of main() (default cap) a step takes the history from       *)
(* non-empty to empty only if it is the clear_history call of the            *)
(* clear-history rule, made while the AI service is available; no other      *)
(* step (another rule, a failed ask, an empty utterance, an eviction, an     *)
(* exception handler) empties a non-empty history.                           *)
C18_OnlyClearEmpties ==
    [][ (ai.conversation_history # << >> /\ ai'.conversation_history = << >>) =>
            /\ pc = "L78"
            /\ pc' = "L80"
            /\ fired = << 7 >>
            /\ is_available(ai)
            /\ ai.max_history = DefaultMaxHistory
            /\ log' = Append(log, Call("clear_history", "", "returned", "")) ]_vars

\* listening again after a full history was cleared and the reply spoken
C18_Witness ==
    /\ pc = "L48"
    /\ fired = << 7 >>
    /\ Len(h0) = 2 * DefaultMaxHistory
    /\ History = << >>
    /\ log[Len(log)] = Spoke(Cleared)


-----------------------------------------------------------------------------
(* C19 as stated: no rule is shadowed for its own trigger phrases: when the  *)
(* utterance is exactly a trigger phrase of a rule, that rule's body is the  *)
(* one that runs.                                                            *)
C19_AsStated ==
    HeardTurn =>
        \A i \in 1..Len(Rules) :
            command \in Rules[i] =>
                /\ fired = << i >>
                /\ \A j \in 1..DefaultRule : pc \in Body[j] => j = i


-----------------------------------------------------------------------------
(* C20: after any sequence of ask and clear_history calls on a handler (with *)
(* the default cap, and with any other cap as well) the history has even     *)
(* length, its entries alternate user, assistant, ... starting with a user   *)
(* entry, and each assistant entry directly follows the user entry of its    *)
(* own exchange: the history is a run of whole exchanges, in the order they  *)
(* were made.                                                                *)
C20_WholeExchanges ==
    /\ Len(History) % 2 = 0
    /\ \A i \in 1..Len(History) :
          History[i].role = (IF i % 2 = 1 THEN "user" ELSE "assistant")
    /\ Len(History) <= 2 * Len(exchanges)
    /\ History = Flatten(LastN(exchanges, Len(History) \div 2))

\* three successful asks with the default cap and nothing else: the first
\* exchange was evicted whole, and it is unlike the two kept
C20_Witness ==
    /\ pc = "handler"
    /\ turns = DefaultMaxHistory + 1
    /\ Len(exchanges) = DefaultMaxHistory + 1
    /\ ai.max_history = DefaultMaxHistory
    /\ AskSucceeded
    /\ Len(History) = 2 * DefaultMaxHistory
    /\ exchanges[1][1] # exchanges[2][1]
    /\ exchanges[1][2] # exchanges[2][2]


-----------------------------------------------------------------------------
\* the call just made was an ask that did not succeed: the service was
\* unavailable, or the model run exited non-zero, timed out or raised
AskNotSucceeded ==
    /\ log # << >>
    /\ log[1].op = "ask"
    /\ log[1].how \in {"unavailable", "nonzero", "TimeoutExpired", "Exception"}

(* C21: an ask that does not succeed (service unavailable, non-zero exit of  *)
(* the model process, timeout, or another exception of the run) leaves the   *)
(* history exactly as it was before the call, whatever the cap: the question *)
(* is recorded neither alone nor with an answer; the call returns the fixed  *)
(* message of its failure.                                                   *)
C21_FailedAskKeepsHistory ==
    /\ (log # << >> /\ log[1].op = "ask") => (AskNotSucceeded \/ AskSucceeded)
    /\ AskNotSucceeded =>
          /\ History = h0
          /\ \A i \in 1..Len(History) :
                History[i].content # log[1].arg \o BriefSuffix
                    \/ \E j \in 1..Len(exchanges) : exchanges[j][1] = History[i]
          /\ response = (CASE log[1].how = "unavailable"    -> AskUnavailable
                           [] log[1].how = "nonzero"        -> AskNonZero
                           [] log[1].how = "TimeoutExpired" -> AskTimeout
                           [] OTHER                         -> AskError)

\* a timed-out ask on a handler that holds two exchanges
C21_Witness ==
    /\ pc = "handler"
    /\ AskNotSucceeded
    /\ log[1].how = "TimeoutExpired"
    /\ Len(h0) = 2 * DefaultMaxHistory
    /\ History = h0
    /\ \A i \in 1..Len(History) : History[i].content # log[1].arg \o BriefSuffix

====
